---------------------------- MODULE Spec2Model ----------------------------
(***************************************************************************)
(* A model of src/AWS-S3/s3-bucket-info.py: the YAML-like emitter, the     *)
(* provider-error classifier, the getter post-processors and the           *)
(* sequential facet sweep of main().                                       *)
(*                                                                         *)
(* Text is a sequence of one-character strings (Chars("ab") = <<"a","b">>).*)
(* A Python value is a tagged record:                                      *)
(*   None      [t |-> "none"]                                              *)
(*   bool      [t |-> "bool", b |-> TRUE]                                  *)
(*   int       [t |-> "int",  i |-> 7]                                     *)
(*   str       [t |-> "str",  s |-> <<"a">>]                               *)
(*   list      [t |-> "list", l |-> <<v1, v2>>]                            *)
(*   dict      [t |-> "dict", d |-> << <<key1, v1>>, <<key2, v2>> >>]      *)
(*             (insertion-ordered, keys are texts)                         *)
(*   datetime  [t |-> "datetime", date |-> .., time |-> .., offset |-> ..] *)
(* float is not modelled (TLC has no reals).                               *)
(***************************************************************************)
EXTENDS Integers, Sequences, FiniteSets, TLC

VARIABLES
    pc,        \* main(): "identity", "creation", "getters", "done"
    idx,       \* main(): position of the for loop in the getters table
    bucket,    \* main(): args.bucket
    titles,    \* stdout: the titles of the sections printed so far, in order
    section,   \* stdout: the section printed last (title, content, lines)
    call,      \* the last call of the step taken last (what the API did, what came back)
    rc,        \* main(): <<>> while running, <<0>> once it has returned 0
    nfailed,   \* history: how many API calls of this run raised ClientError
    input,     \* pure-function runs: the argument drawn
    result     \* pure-function runs: <<>> before the call, <<value>> after

vars == <<pc, idx, bucket, titles, section, call, rc, nfailed, input, result>>

mainVars == <<pc, idx, bucket, titles, section, call, rc, nfailed>>

---------------------------------------------------------------------------
(* Text helpers (Python str operations used by the source)                 *)

Chars(s) == [i \in 1..Len(s) |-> SubSeq(s, i, i)]

\* sep.join(lines)
RECURSIVE Join(_, _)
Join(lines, sep) ==
    IF lines = <<>> THEN <<>>
    ELSE IF Len(lines) = 1 THEN lines[1]
    ELSE lines[1] \o sep \o Join(Tail(lines), sep)

\* " " * n
Spaces(n) == [i \in 1..n |-> " "]

\* c in s, for a one-character c
Contains(s, c) == \E i \in 1..Len(s) : s[i] = c

\* s.startswith(p)
StartsWith(s, p) == Len(s) >= Len(p) /\ SubSeq(s, 1, Len(p)) = p

\* The characters str.strip() removes (those of str.isspace() that a TLA+
\* string literal can hold).
Whitespace == {" ", "\t", "\n", "\r", "\f"}

\* s.strip(): from the first to the last character that is no whitespace
strip(s) ==
    IF \A i \in 1..Len(s) : s[i] \in Whitespace THEN <<>>
    ELSE SubSeq(s,
                CHOOSE i \in 1..Len(s) :
                    s[i] \notin Whitespace /\ \A j \in 1..(i - 1) : s[j] \in Whitespace,
                CHOOSE i \in 1..Len(s) :
                    s[i] \notin Whitespace
                      /\ \A j \in (i + 1)..Len(s) : s[j] \in Whitespace)

UpperCase == Chars("ABCDEFGHIJKLMNOPQRSTUVWXYZ")

LowerCase == Chars("abcdefghijklmnopqrstuvwxyz")

lower_char(c) ==
    IF \E i \in 1..Len(UpperCase) : UpperCase[i] = c
    THEN LowerCase[CHOOSE i \in 1..Len(UpperCase) : UpperCase[i] = c]
    ELSE c

\* s.lower()
lower(s) == [i \in 1..Len(s) |-> lower_char(s[i])]

\* s.replace(old, new) for a one-character old
\* (computed by halves: the replacements of a text are those of its parts)
RECURSIVE replace(_, _, _)
replace(s, old, new) ==
    IF ~Contains(s, old) THEN s
    ELSE IF Len(s) = 1 THEN new
    ELSE LET h == Len(s) \div 2 IN
         replace(SubSeq(s, 1, h), old, new)
           \o replace(SubSeq(s, h + 1, Len(s)), old, new)

DigitChars == Chars("0123456789")

RECURSIVE str_nat(_)
str_nat(n) ==
    IF n < 10 THEN <<DigitChars[n + 1]>>
    ELSE str_nat(n \div 10) \o <<DigitChars[(n % 10) + 1]>>

\* str(i) for an int
str_int(i) == IF i < 0 THEN <<"-">> \o str_nat(-i) ELSE str_nat(i)

---------------------------------------------------------------------------
(* Python values                                                           *)

PyNone == [t |-> "none"]

PyBool(b) == [t |-> "bool", b |-> b]

PyInt(i) == [t |-> "int", i |-> i]

PyStr(s) == [t |-> "str", s |-> s]

PyList(l) == [t |-> "list", l |-> l]

PyDict(d) == [t |-> "dict", d |-> d]

PyDatetime(date, time, offset) ==
    [t |-> "datetime", date |-> date, time |-> time, offset |-> offset]

\* datetime.isoformat(): date, "T", time, and the offset of a tz-aware value
isoformat(dt) == dt.date \o <<"T">> \o dt.time \o dt.offset

\* str(datetime): as isoformat() with a space for the "T"
str_datetime(dt) == dt.date \o <<" ">> \o dt.time \o dt.offset

\* bool(v): Python truthiness, as `if not x` and `x if x else y` use it
Truthy(v) ==
    CASE v.t = "none" -> FALSE
      [] v.t = "bool" -> v.b
      [] v.t = "int"  -> v.i # 0
      [] v.t = "str"  -> v.s # <<>>
      [] v.t = "list" -> v.l # <<>>
      [] v.t = "dict" -> v.d # <<>>
      [] OTHER        -> TRUE

HasKey(d, key) == \E i \in 1..Len(d.d) : d.d[i][1] = key

\* d.get(key, default)
DictGet(d, key, default) ==
    IF HasKey(d, key)
    THEN d.d[CHOOSE i \in 1..Len(d.d) : d.d[i][1] = key][2]
    ELSE default

\* d[key] = value on a dict: the key keeps its place, a new key goes last
DictSet(d, key, value) ==
    IF HasKey(d, key)
    THEN PyDict([i \in 1..Len(d.d) |->
                   IF d.d[i][1] = key THEN <<key, value>> ELSE d.d[i]])
    ELSE PyDict(Append(d.d, <<key, value>>))

---------------------------------------------------------------------------
(* Minimal YAML emitter                                                    *)

_is_scalar(x) == x.t \in {"none", "str", "int", "bool"}

\* The backtick character (written with a closing quote after it, which the
\* parser asks of a backtick inside a string)
Backtick == SubSeq("`'", 1, 1)

SpecialChars ==
    {":", "{", "}", "[", "]", ",", "#", "&", "*", "!", "|", ">", "%", "@", Backtick}

ReservedWords ==
    {Chars("null"), Chars("true"), Chars("false"), Chars("yes"),
     Chars("no"), Chars("on"), Chars("off")}

StartPrefixes == {<<"~">>, <<"=">>, <<"<">>, <<">">>, <<"\"">>, <<"'">>}

\* needs_quotes with the reserved words compared as written, case and all
needs_quotes_case_sensitive(s) ==
    \/ s = <<>>
    \/ strip(s) # s
    \/ \E c \in SpecialChars : Contains(s, c)
    \/ Contains(s, "\n")
    \/ s \in ReservedWords
    \/ s[1] \in {"-", "?", "@"}
    \/ \E p \in StartPrefixes : StartsWith(s, p)

needs_quotes(s) ==
    \/ s = <<>>
    \/ strip(s) # s
    \/ \E c \in SpecialChars : Contains(s, c)
    \/ Contains(s, "\n")
    \/ lower(s) \in ReservedWords
    \/ s[1] \in {"-", "?", "@"}
    \/ \E p \in StartPrefixes : StartsWith(s, p)

\* _yaml_escape_str that wraps in single quotes and doubles none
_yaml_escape_str_undoubled(s) ==
    IF ~needs_quotes(s) THEN s ELSE <<"'">> \o s \o <<"'">>

_yaml_escape_str(s) ==
    IF ~needs_quotes(s) THEN s
    ELSE <<"'">> \o replace(s, "'", <<"'", "'">>) \o <<"'">>

\* str(obj) of an object that is none of the Display Value types
str_object(obj) == str_datetime(obj)

RECURSIVE yaml_info(_, _)
yaml_info(obj, indent) ==
    LET sp == Spaces(indent) IN
    IF _is_scalar(obj) THEN
        CASE obj.t = "none" -> Chars("null")
          [] obj.t = "bool" -> IF obj.b THEN Chars("true") ELSE Chars("false")
          [] obj.t = "int"  -> str_int(obj.i)
          [] OTHER          -> _yaml_escape_str(obj.s)
    ELSE IF obj.t = "list" THEN
        IF obj.l = <<>> THEN Chars("[]")
        ELSE Join([k \in 1..Len(obj.l) |->
                     IF _is_scalar(obj.l[k])
                     THEN sp \o Chars("- ") \o yaml_info(obj.l[k], 0)
                     ELSE sp \o Chars("- ") \o yaml_info(obj.l[k], indent + 2)],
                  <<"\n">>)
    ELSE IF obj.t = "dict" THEN
        IF obj.d = <<>> THEN Chars("{}")
        ELSE Join([k \in 1..Len(obj.d) |->
                     IF _is_scalar(obj.d[k][2])
                     THEN sp \o obj.d[k][1] \o Chars(": ")
                             \o yaml_info(obj.d[k][2], 0)
                     ELSE sp \o obj.d[k][1] \o Chars(":") \o <<"\n">>
                             \o yaml_info(obj.d[k][2], indent + 2)],
                  <<"\n">>)
    ELSE _yaml_escape_str(str_object(obj))

\* What print_section writes: the three print() calls, one text each.
print_section(title, content) ==
    LET yaml_output == yaml_info(content, 2) IN
    [title   |-> title,
     content |-> content,
     lines   |-> <<Chars("----"),
                   Chars(title) \o <<":">>,
                   IF yaml_output # <<>> THEN yaml_output ELSE Chars("  {}")>>]

---------------------------------------------------------------------------
(* S3 helpers                                                              *)

NOT_CONFIGURED_CODES ==
    {Chars("NoSuchBucket"),
     Chars("NoSuchTagSet"),
     Chars("NoSuchLifecycleConfiguration"),
     Chars("NoSuchPublicAccessBlockConfiguration"),
     Chars("NoSuchBucketPolicy"),
     Chars("NoSuchBucketLoggingStatus"),
     Chars("NoSuchReplicationConfiguration"),
     Chars("NoSuchEncryptionConfiguration"),
     Chars("NoSuchWebsiteConfiguration"),
     Chars("NoSuchCORSConfiguration"),
     Chars("NoSuchOwnershipControls"),
     Chars("NoSuchAccelerateConfiguration"),
     Chars("NoSuchRequestPaymentConfiguration"),
     Chars("ServerSideEncryptionConfigurationNotFoundError"),
     Chars("NotFound")}

(* A ClientError: err.response holds "Error": {"Code", "Message"} and      *)
(* "ResponseMetadata": {"HTTPStatusCode"}, each of which may be missing.   *)
(* An optional field is <<>> (missing) or <<value>>.                       *)
ClientError(code, message, status) ==
    [code |-> code, message |-> message, status |-> status]

\* str(err): botocore's "An error occurred (<code>) when calling the
\* <operation> operation: <message>", with "Unknown" for a missing field
str_error(err) ==
    Chars("An error occurred (")
      \o (IF err.code = <<>> THEN Chars("Unknown") ELSE err.code[1])
      \o Chars(") when calling the operation: ")
      \o (IF err.message = <<>> THEN Chars("Unknown") ELSE err.message[1])

\* classify_client_error without the HTTP 404 catch-all
classify_client_error_code_only(err) ==
    LET code == IF err.code = <<>> THEN Chars("Unknown") ELSE err.code[1]
        msg  == IF err.message = <<>> THEN str_error(err) ELSE err.message[1]
    IN  IF code \in NOT_CONFIGURED_CODES
        THEN <<"not configured", code \o Chars(": ") \o msg>>
        ELSE <<"error", code \o Chars(": ") \o msg>>

\* Returns <<kind, message>>.
classify_client_error(err) ==
    LET code == IF err.code = <<>> THEN Chars("Unknown") ELSE err.code[1]
        msg  == IF err.message = <<>> THEN str_error(err) ELSE err.message[1]
        status == err.status
    IN  IF code \in NOT_CONFIGURED_CODES \/ status = <<404>>
        THEN <<"not configured", code \o Chars(": ") \o msg>>
        ELSE <<"error", code \o Chars(": ") \o msg>>

\* find_bucket_in_listbuckets taking the first bucket whose name begins with
\* `name`
find_bucket_in_listbuckets_prefix(resp, name) ==
    LET buckets == DictGet(resp, Chars("Buckets"), PyList(<<>>)).l
        hits == {i \in 1..Len(buckets) :
                   StartsWith(DictGet(buckets[i], Chars("Name"), PyStr(<<>>)).s,
                              name)}
    IN  IF hits = {} THEN PyNone
        ELSE LET b  == buckets[CHOOSE i \in hits : \A j \in hits : i <= j]
                 cd == DictGet(b, Chars("CreationDate"), PyNone)
             IN  IF cd.t = "datetime"
                 THEN [t |-> "dict",
                       d |-> [i \in 1..Len(b.d) |->
                                IF b.d[i][1] = Chars("CreationDate")
                                THEN <<b.d[i][1], PyStr(isoformat(cd))>>
                                ELSE b.d[i]]]
                 ELSE b

\* The first bucket of resp.get("Buckets", []) named `name`, its datetime
\* CreationDate replaced by its isoformat(); None when there is none.
find_bucket_in_listbuckets(resp, name) ==
    LET buckets == DictGet(resp, Chars("Buckets"), PyList(<<>>)).l
        hits == {i \in 1..Len(buckets) :
                   DictGet(buckets[i], Chars("Name"), PyNone) = PyStr(name)}
    IN  IF hits = {} THEN PyNone
        ELSE LET b  == buckets[CHOOSE i \in hits : \A j \in hits : i <= j]
                 cd == DictGet(b, Chars("CreationDate"), PyNone)
             IN  IF cd.t = "datetime"
                 THEN DictSet(b, Chars("CreationDate"), PyStr(isoformat(cd)))
                 ELSE b

(* json.loads on the policy documents of the model: <<value>> for a        *)
(* document that parses, <<>> for one that raises.                         *)
json_loads(text) ==
    CASE text = Chars("{\"Version\":\"2012-10-17\"}") ->
            <<PyDict(<< <<Chars("Version"), PyStr(Chars("2012-10-17"))>> >>)>>
      [] text = Chars("{\"Statement\":[]}") ->
            <<PyDict(<< <<Chars("Statement"), PyList(<<>>)>> >>)>>
      [] text = Chars("null") -> <<PyNone>>
      [] OTHER -> <<>>

parse_policy(resp) ==
    LET policy_str == DictGet(resp, Chars("Policy"), PyNone) IN
    IF ~Truthy(policy_str) THEN resp
    ELSE IF json_loads(policy_str.s) # <<>> THEN json_loads(policy_str.s)[1]
    ELSE PyDict(<< <<Chars("Policy"), policy_str>> >>)

\* normalize_location replacing None alone, an empty string passing through
normalize_location_none_only(resp) ==
    LET lc == DictGet(resp, Chars("LocationConstraint"), PyNone) IN
    PyDict(<< <<Chars("LocationConstraint"),
                IF lc # PyNone THEN lc ELSE PyStr(Chars("us-east-1"))>> >>)

normalize_location(resp) ==
    LET lc == DictGet(resp, Chars("LocationConstraint"), PyNone) IN
    PyDict(<< <<Chars("LocationConstraint"),
                IF Truthy(lc) THEN lc ELSE PyStr(Chars("us-east-1"))>> >>)

\* postprocess(data), for the post-processors the getters table names
postprocess_call(postprocess, data) ==
    CASE postprocess = "normalize_location" -> normalize_location(data)
      [] postprocess = "parse_policy"       -> parse_policy(data)

StatusNotConfigured ==
    PyDict(<< <<Chars("status"), PyStr(Chars("not configured"))>> >>)

StatusError(message) ==
    PyDict(<< <<Chars("status"), PyStr(Chars("error"))>>,
              <<Chars("message"), PyStr(message)>> >>)

\* call_s3_getter keeping the classified message in the "not configured"
\* payload
call_s3_getter_keeps_message(title, fn, postprocess) ==
    IF ~fn.raised
    THEN [status  |-> "ok",
          payload |-> IF postprocess # "None"
                      THEN postprocess_call(postprocess, fn.value)
                      ELSE fn.value,
          post_called |-> postprocess # "None"]
    ELSE LET kind_message == classify_client_error(fn.err) IN
         [status |-> kind_message[1],
          payload |-> PyDict(<< <<Chars("status"), PyStr(Chars(kind_message[1]))>>,
                                <<Chars("message"), PyStr(kind_message[2])>> >>),
          post_called |-> FALSE]

(* fn() is the API's answer: [raised |-> FALSE, value |-> response] or     *)
(* [raised |-> TRUE, err |-> ClientError].  Returns the (status, payload)  *)
(* pair, and whether postprocess was called on the way.                    *)
call_s3_getter(title, fn, postprocess) ==
    IF ~fn.raised
    THEN [status  |-> "ok",
          payload |-> IF postprocess # "None"
                      THEN postprocess_call(postprocess, fn.value)
                      ELSE fn.value,
          post_called |-> postprocess # "None"]
    ELSE LET kind_message == classify_client_error(fn.err) IN
         IF kind_message[1] = "not configured"
         THEN [status |-> "not configured", payload |-> StatusNotConfigured,
               post_called |-> FALSE]
         ELSE [status |-> "error", payload |-> StatusError(kind_message[2]),
               post_called |-> FALSE]

---------------------------------------------------------------------------
(* What the provider API can answer                                        *)

\* The longest ListBuckets enumeration of the model
MaxBuckets == 2

ErrorCodes ==
    NOT_CONFIGURED_CODES
      \cup {Chars("AccessDenied"), Chars("notfound"), Chars("NoSuchKey")}

ErrorMessages == {Chars("Access Denied"), Chars("The resource: none")}

\* Every ClientError of the model: any code or none, any message or none,
\* HTTP status 404, 403 or none.
Errors ==
    {ClientError(code, message, status) :
        code \in {<<c>> : c \in ErrorCodes} \cup {<<>>},
        message \in {<<m>> : m \in ErrorMessages} \cup {<<>>},
        status \in {<<>>, <<404>>, <<403>>}}

\* The ClientErrors a call of main() draws from: absent by its code, absent
\* by the 404 catch-all alone, a plain failure, and one with nothing in it.
MainErrors ==
    {ClientError(<<Chars("NoSuchTagSet")>>, <<Chars("The resource: none")>>, <<404>>),
     ClientError(<<Chars("NoSuchKey")>>, <<Chars("The resource: none")>>, <<404>>),
     ClientError(<<Chars("AccessDenied")>>, <<Chars("Access Denied")>>, <<403>>),
     ClientError(<<>>, <<>>, <<>>)}

\* An API call returns one of `responses` or raises one of `errors`.
ApiOutcomes(responses, errors) ==
    {[raised |-> FALSE, value |-> r] : r \in responses}
      \cup {[raised |-> TRUE, err |-> e] : e \in errors}

IdentityResponses ==
    {PyDict(<< <<Chars("UserId"), PyStr(Chars("AIDAEXAMPLE"))>>,
               <<Chars("Account"), PyStr(Chars("123456789012"))>>,
               <<Chars("Arn"), PyStr(Chars("arn:aws:iam::123456789012:user/me"))>> >>)}

BucketNames == {Chars("my-bucket"), Chars("my-bucket-2")}

CreationDates ==
    {PyDatetime(Chars("2026-01-02"), Chars("03:04:05"), Chars("+00:00")),
     PyDatetime(Chars("2025-12-31"), Chars("23:59:59"), <<>>),
     PyStr(Chars("2024-02-29"))}

BucketEntries ==
    {PyDict(<< <<Chars("Name"), PyStr(n)>>, <<Chars("CreationDate"), cd>> >>) :
        n \in BucketNames, cd \in CreationDates}

SeqsUpTo(S, n) == UNION {[1..k -> S] : k \in 0..n}

ListBucketsResponses ==
    {PyDict(<< <<Chars("Buckets"), PyList(bs)>> >>) :
        bs \in SeqsUpTo(BucketEntries, MaxBuckets)}
      \cup {PyDict(<<>>)}

LocationConstraints ==
    {PyNone, PyStr(<<>>), PyStr(Chars("eu-west-1")), PyStr(Chars("us-east-1")),
     PyStr(Chars(" "))}

LocationResponses ==
    {PyDict(<< <<Chars("LocationConstraint"), lc>> >>) : lc \in LocationConstraints}
      \cup {PyDict(<< <<Chars("ResponseMetadata"), PyDict(<<>>)>>,
                      <<Chars("LocationConstraint"), lc>> >>) :
              lc \in LocationConstraints}
      \cup {PyDict(<<>>), PyDict(<< <<Chars("ResponseMetadata"), PyDict(<<>>)>> >>)}

PolicyDocuments ==
    {Chars("{\"Version\":\"2012-10-17\"}"), Chars("{\"Statement\":[]}"),
     Chars("null"), Chars("{not json"), <<>>}

PolicyResponses ==
    {PyDict(<< <<Chars("Policy"), PyStr(doc)>> >>) : doc \in PolicyDocuments}
      \cup {PyDict(<<>>)}

GenericResponses ==
    {PyDict(<<>>),
     PyDict(<< <<Chars("Status"), PyStr(Chars("Enabled"))>> >>),
     PyDict(<< <<Chars("Rules"), PyList(<<>>)>> >>),
     PyDict(<< <<Chars("TagSet"),
                 PyList(<<PyDict(<< <<Chars("Key"), PyStr(Chars("env"))>>,
                                    <<Chars("Value"), PyStr(Chars("prod"))>> >>)>>)>> >>)}

---------------------------------------------------------------------------
(* main()                                                                  *)
(* A value computed once and used again is bound by \E x \in {value}, so   *)
(* that it is computed once here too; a step records its call before it   *)
(* prints.                                                                 *)

\* (title, post-processor) of the getters list, in its order; the lambda of
\* an entry is the API call whose answer the step draws.
getters ==
    << <<"Location", "normalize_location">>,
       <<"Versioning", "None">>,
       <<"Encryption", "None">>,
       <<"PublicAccessBlock", "None">>,
       <<"Policy", "parse_policy">>,
       <<"Logging", "None">>,
       <<"Tagging", "None">>,
       <<"Lifecycle", "None">>,
       <<"ACL", "None">>,
       <<"PolicyStatus", "None">>,
       <<"OwnershipControls", "None">>,
       <<"CORS", "None">>,
       <<"Website", "None">>,
       <<"Replication", "None">>,
       <<"Accelerate", "None">>,
       <<"RequestPayment", "None">>,
       <<"ObjectLock", "None">> >>

\* What the API call of a getter can return
GetterResponses(title) ==
    CASE title = "Location" -> LocationResponses
      [] title = "Policy"   -> PolicyResponses
      [] OTHER              -> GenericResponses

BucketArgs == {Chars("my-bucket"), Chars("none-such")}

NoCall == [title |-> "", fn |-> <<>>, postprocess |-> "None", ret |-> <<>>]

NoSection == [title |-> "", content |-> PyNone, lines |-> <<>>]

\* print_section(title, content), as it changes stdout
Emit(title, content) ==
    \E printed \in {print_section(title, content)} :
        /\ titles' = Append(titles, title)
        /\ section' = printed

Failures(fn) == IF fn.raised THEN 1 ELSE 0

\* The CallerIdentity section, lines 214-220
CallerIdentityStep ==
    /\ pc = "identity"
    /\ \E fn \in ApiOutcomes(IdentityResponses, MainErrors) :
          /\ call' = [title |-> "CallerIdentity", fn |-> <<fn>>,
                      postprocess |-> "None", ret |-> <<>>]
          /\ nfailed' = nfailed + Failures(fn)
          /\ \E content \in {IF ~fn.raised THEN fn.value
                             ELSE StatusError(classify_client_error(fn.err)[2])} :
                Emit("CallerIdentity", content)
    /\ pc' = "creation"
    /\ UNCHANGED <<idx, bucket, rc, input, result>>

\* The body of the Creation section, given what list_buckets() did
CreationContent(fn, name) ==
    IF fn.raised THEN StatusError(classify_client_error(fn.err)[2])
    ELSE LET binfo == find_bucket_in_listbuckets(fn.value, name) IN
         IF ~Truthy(binfo)
         THEN StatusError(Chars("Bucket not found in ListBuckets for name: ")
                            \o name)
         ELSE PyDict(<< <<Chars("Name"), DictGet(binfo, Chars("Name"), PyNone)>>,
                        <<Chars("CreationDate"),
                          DictGet(binfo, Chars("CreationDate"), PyNone)>> >>)

\* The Creation step with no handler around list_buckets(): a ClientError
\* ends the run there, nothing printed, the exit status 1
CreationStep_propagates ==
    /\ pc = "creation"
    /\ \E fn \in ApiOutcomes(ListBucketsResponses, MainErrors) :
          /\ call' = [title |-> "Creation", fn |-> <<fn>>,
                      postprocess |-> "None", ret |-> <<>>]
          /\ nfailed' = nfailed + Failures(fn)
          /\ IF fn.raised
             THEN /\ pc' = "done"
                  /\ rc' = <<1>>
                  /\ UNCHANGED <<titles, section, idx>>
             ELSE /\ \E content \in {CreationContent(fn, bucket)} :
                        Emit("Creation", content)
                  /\ pc' = "getters"
                  /\ idx' = 1
                  /\ UNCHANGED rc
    /\ UNCHANGED <<bucket, input, result>>

\* The Creation section, lines 222-234
CreationStep ==
    /\ pc = "creation"
    /\ \E fn \in ApiOutcomes(ListBucketsResponses, MainErrors) :
          /\ call' = [title |-> "Creation", fn |-> <<fn>>,
                      postprocess |-> "None", ret |-> <<>>]
          /\ nfailed' = nfailed + Failures(fn)
          /\ \E content \in {CreationContent(fn, bucket)} :
                Emit("Creation", content)
    /\ pc' = "getters"
    /\ idx' = 1
    /\ UNCHANGED <<bucket, rc, input, result>>

\* The loop body with no handler in call_s3_getter: a ClientError ends the
\* run there, the exit status 1
GetterStep_propagates ==
    /\ pc = "getters"
    /\ idx <= Len(getters)
    /\ LET title == getters[idx][1]
           post  == getters[idx][2]
       IN  \E fn \in ApiOutcomes(GetterResponses(title), MainErrors) :
              /\ nfailed' = nfailed + Failures(fn)
              /\ IF fn.raised
                 THEN /\ call' = [title |-> title, fn |-> <<fn>>,
                                  postprocess |-> post, ret |-> <<>>]
                      /\ pc' = "done"
                      /\ rc' = <<1>>
                      /\ UNCHANGED <<titles, section, idx>>
                 ELSE \E ret \in {call_s3_getter(title, fn, post)} :
                         /\ call' = [title |-> title, fn |-> <<fn>>,
                                     postprocess |-> post, ret |-> <<ret>>]
                         /\ \E payload \in {ret.payload} : Emit(title, payload)
                         /\ idx' = idx + 1
                         /\ UNCHANGED <<pc, rc>>
    /\ UNCHANGED <<bucket, input, result>>

\* One iteration of the for loop, lines 261-263
GetterStep ==
    /\ pc = "getters"
    /\ idx <= Len(getters)
    /\ LET title == getters[idx][1]
           post  == getters[idx][2]
       IN  \E fn \in ApiOutcomes(GetterResponses(title), MainErrors) :
              \E ret \in {call_s3_getter(title, fn, post)} :
                 /\ call' = [title |-> title, fn |-> <<fn>>,
                             postprocess |-> post, ret |-> <<ret>>]
                 /\ nfailed' = nfailed + Failures(fn)
                 /\ \E payload \in {ret.payload} : Emit(title, payload)
    /\ idx' = idx + 1
    /\ UNCHANGED <<pc, bucket, rc, input, result>>

\* return 0, line 265
Return ==
    /\ pc = "getters"
    /\ idx > Len(getters)
    /\ pc' = "done"
    /\ rc' = <<0>>
    /\ UNCHANGED <<idx, bucket, titles, section, call, nfailed, input, result>>

NoInput == [fn |-> "none"]

Init ==
    /\ pc = "identity"
    /\ idx = 0
    /\ bucket \in BucketArgs
    /\ titles = <<>>
    /\ section = NoSection
    /\ call = NoCall
    /\ rc = <<>>
    /\ nfailed = 0
    /\ input = NoInput
    /\ result = <<>>

Next ==
    \/ CallerIdentityStep
    \/ CreationStep
    \/ GetterStep
    \/ Return

Spec == Init /\ [][Next]_vars

\* main() is sequential code: a step that can be taken is taken.
FairSpec == Spec /\ WF_vars(Next)

---------------------------------------------------------------------------
(* The helpers on their own: an argument is drawn, the function is applied *)

\* main() at rest, for the runs that exercise one function
MainIdle ==
    /\ pc = "off"
    /\ idx = 0
    /\ bucket = Chars("my-bucket")
    /\ titles = <<>>
    /\ section = NoSection
    /\ call = NoCall
    /\ rc = <<>>
    /\ nfailed = 0

\* result = f(input), once
Apply(value) ==
    /\ result = <<>>
    /\ result' = <<value>>
    /\ UNCHANGED <<input, mainVars>>

HelperInputs ==
    {[fn |-> "classify_client_error", err |-> e] : e \in Errors}
      \cup {[fn |-> "call_s3_getter", title |-> g[1], outcome |-> o,
             postprocess |-> g[2]] :
              g \in {getters[1], getters[2], getters[5]},
              o \in ApiOutcomes(LocationResponses \cup PolicyResponses
                                  \cup GenericResponses, Errors)}
      \cup {[fn |-> "normalize_location", resp |-> r] : r \in LocationResponses}
      \cup {[fn |-> "parse_policy", resp |-> r] : r \in PolicyResponses}

ClassifyCall ==
    /\ input.fn = "classify_client_error"
    /\ Apply(classify_client_error(input.err))

GetterCall ==
    /\ input.fn = "call_s3_getter"
    /\ Apply(call_s3_getter(input.title, input.outcome, input.postprocess))

NormalizeLocationCall ==
    /\ input.fn = "normalize_location"
    /\ Apply(normalize_location(input.resp))

ParsePolicyCall ==
    /\ input.fn = "parse_policy"
    /\ Apply(parse_policy(input.resp))

HelperInit == MainIdle /\ input \in HelperInputs /\ result = <<>>

HelperNext ==
    \/ ClassifyCall
    \/ GetterCall
    \/ NormalizeLocationCall
    \/ ParsePolicyCall

SpecHelpers == HelperInit /\ [][HelperNext]_vars

---------------------------------------------------------------------------
(* _yaml_escape_str on its own                                             *)

\* The most pieces a drawn text is made of
MaxPieces == 2

CharPieces ==
    {<<c>> : c \in SpecialChars
               \cup {"-", "?", "~", "=", "<", "\"", "'", " ", "\n", "\t",
                     "a", "x", "."}}

WordPieces ==
    ReservedWords
      \cup {Chars("NULL"), Chars("True"), Chars("FALSE"), Chars("Yes"),
            Chars("nO"), Chars("On"), Chars("oFF"), Chars("ok")}

\* Every text made of at most n pieces
RECURSIVE TextsOf(_, _)
TextsOf(pieces, n) ==
    IF n = 0 THEN {<<>>}
    ELSE LET shorter == TextsOf(pieces, n - 1) IN
         shorter \cup {t \o p : t \in shorter, p \in pieces}

EscapeInputs(n) ==
    {[fn |-> "_yaml_escape_str", s |-> t] :
        t \in TextsOf(CharPieces \cup WordPieces, n)}

EscapeCall ==
    /\ input.fn = "_yaml_escape_str"
    /\ Apply(_yaml_escape_str(input.s))

EscapeInit == MainIdle /\ input \in EscapeInputs(MaxPieces) /\ result = <<>>

EscapeNext == EscapeCall

SpecEscape == EscapeInit /\ [][EscapeNext]_vars

---------------------------------------------------------------------------
(* yaml_info on its own                                                    *)

\* The most elements of a drawn list, and the most keys of a drawn mapping
MaxItems == 2

\* How deep the drawn values nest: 0 is scalars alone
MaxDepth == 2

YamlScalars == {PyNone, PyInt(-12), PyStr(Chars("it's"))}

\* The k-th key of a drawn mapping
YamlKey(k) == Chars("Key") \o str_nat(k)

\* The mappings of at most n keys (Key1, Key2, ...) to values of V
DictsOf(V, n) ==
    {PyDict([i \in 1..Len(vs) |-> <<YamlKey(i), vs[i]>>]) : vs \in SeqsUpTo(V, n)}

ListsOf(V, n) == {PyList(l) : l \in SeqsUpTo(V, n)}

RECURSIVE ValuesOfDepth(_)
ValuesOfDepth(depth) ==
    IF depth = 0 THEN YamlScalars
    ELSE LET inner == ValuesOfDepth(depth - 1) IN
         YamlScalars \cup ListsOf(inner, MaxItems) \cup DictsOf(inner, MaxItems)

YamlInputs(depth) ==
    {[fn |-> "yaml_info", obj |-> v, indent |-> n] :
        v \in ValuesOfDepth(depth), n \in {0, 2}}

YamlCall ==
    /\ input.fn = "yaml_info"
    /\ Apply(yaml_info(input.obj, input.indent))

YamlInit == MainIdle /\ input \in YamlInputs(MaxDepth) /\ result = <<>>

YamlNext == YamlCall

SpecYaml == YamlInit /\ [][YamlNext]_vars

---------------------------------------------------------------------------
(* Properties                                                              *)

\* The lines of a text: its pieces between newlines
SplitLines(text) ==
    LET breaks == {i \in 1..Len(text) : text[i] = "\n"}
        starts == {1} \cup {i + 1 : i \in breaks}
        StartOf(k) == CHOOSE i \in starts :
                          Cardinality({j \in starts : j < i}) = k - 1
        EndOf(k) == IF k = Cardinality(starts) THEN Len(text)
                    ELSE StartOf(k + 1) - 2
    IN  [k \in 1..Cardinality(starts) |-> SubSeq(text, StartOf(k), EndOf(k))]

\* How many spaces a line begins with
LeadingSpaces(line) ==
    Cardinality({i \in 1..Len(line) : \A j \in 1..i : line[j] = " "})

\* sub occurs in text
Infix(sub, text) ==
    \E i \in 0..(Len(text) - Len(sub)) : SubSeq(text, i + 1, i + Len(sub)) = sub

\* The code and the message of a provider error, "Unknown" and the error's
\* own text standing in for a missing one
CodeOf(err) == IF err.code = <<>> THEN Chars("Unknown") ELSE err.code[1]

MessageOf(err) == IF err.message = <<>> THEN str_error(err) ELSE err.message[1]

\* The code is in the not-configured set, or the HTTP status is 404
IsAbsence(err) ==
    \/ err.code # <<>> /\ err.code[1] \in NOT_CONFIGURED_CODES
    \/ err.status # <<>> /\ err.status[1] = 404

Classified == input.fn = "classify_client_error" /\ result # <<>>

\* C1: classify_client_error returns kind "not configured" exactly when the
\* code is in NOT_CONFIGURED_CODES or the HTTP status is 404; otherwise the
\* kind is "error" and the message is "<code>: <message>".
C1_Classification ==
    Classified =>
        LET err == input.err
            kind == result[1][1]
            message == result[1][2]
        IN  /\ kind \in {"not configured", "error"}
            /\ (kind = "not configured") <=> IsAbsence(err)
            /\ kind = "error" =>
                  message = CodeOf(err) \o <<":", " ">> \o MessageOf(err)

\* C1's case: an error whose code is not in the set, classified as absent
\* by its 404 alone.
C1_Witness ==
    /\ Classified
    /\ input.err.code = <<Chars("AccessDenied")>>
    /\ input.err.status = <<404>>
    /\ result[1][1] = "not configured"

GetterCalled == input.fn = "call_s3_getter" /\ result # <<>>

\* C3: call_s3_getter returns ("ok", payload), the payload being the
\* post-processor's result when there is one and the response otherwise;
\* on a provider error classified "not configured" the payload is exactly
\* {status: "not configured"}; on one classified "error" it is exactly
\* {status: "error", message: "<code>: <message>"}; and the post-processor
\* is not called when the getter fails.
C3_GetterOutcome ==
    GetterCalled =>
        LET fn == input.outcome
            ret == result[1]
        IN  IF ~fn.raised
            THEN /\ ret.status = "ok"
                 /\ ret.payload =
                      (CASE input.postprocess = "normalize_location" ->
                              normalize_location(fn.value)
                         [] input.postprocess = "parse_policy" ->
                              parse_policy(fn.value)
                         [] OTHER -> fn.value)
                 /\ ret.post_called <=> input.postprocess # "None"
            ELSE /\ ~ret.post_called
                 /\ IF IsAbsence(fn.err)
                    THEN /\ ret.status = "not configured"
                         /\ ret.payload =
                              PyDict(<< <<Chars("status"),
                                          PyStr(Chars("not configured"))>> >>)
                    ELSE /\ ret.status = "error"
                         /\ ret.payload =
                              PyDict(<< <<Chars("status"), PyStr(Chars("error"))>>,
                                        <<Chars("message"),
                                          PyStr(CodeOf(fn.err) \o <<":", " ">>
                                                  \o MessageOf(fn.err))>> >>)

\* C3's case: a getter with a post-processor fails with a 404 whose code is
\* not in the set; the fixed payload comes back, the message is gone.
C3_Witness ==
    /\ GetterCalled
    /\ input.postprocess = "normalize_location"
    /\ input.outcome.raised
    /\ input.outcome.err.code = <<Chars("NoSuchKey")>>
    /\ input.outcome.err.message # <<>>
    /\ input.outcome.err.status = <<404>>
    /\ Len(result[1].payload.d) = 1

LocationNormalized == input.fn = "normalize_location" /\ result # <<>>

\* The LocationConstraint of a response, <<>> when the key is missing
ConstraintOf(resp) ==
    LET at == {i \in 1..Len(resp.d) : resp.d[i][1] = Chars("LocationConstraint")}
    IN  IF at = {} THEN <<>> ELSE <<resp.d[CHOOSE i \in at : TRUE][2]>>

\* C10: normalize_location gives LocationConstraint "us-east-1" when the
\* response's is absent, null or the empty string, and the response's own
\* value otherwise; the field is never null and never empty.
C10_Location ==
    LocationNormalized =>
        LET lc == ConstraintOf(input.resp)
            expected == IF lc = <<>> \/ lc = <<PyNone>> \/ lc = <<PyStr(<<>>)>>
                        THEN PyStr(Chars("us-east-1"))
                        ELSE lc[1]
        IN  /\ result[1] = PyDict(<< <<Chars("LocationConstraint"), expected>> >>)
            /\ result[1].d[1][2] # PyNone
            /\ result[1].d[1][2] # PyStr(<<>>)

\* C10's case: the empty string, among other keys, becomes the default region.
C10_Witness ==
    /\ LocationNormalized
    /\ Len(input.resp.d) = 2
    /\ ConstraintOf(input.resp) = <<PyStr(<<>>)>>
    /\ result[1].d[1][2] = PyStr(Chars("us-east-1"))

Escaped == input.fn = "_yaml_escape_str" /\ result # <<>>

\* Two characters that are the same letter, whatever their case
SameLetter(a, b) ==
    a = b \/ \E i \in 1..Len(UpperCase) : {a, b} = {UpperCase[i], LowerCase[i]}

\* s is word w, case aside
SameWord(s, w) ==
    Len(s) = Len(w) /\ \A i \in 1..Len(s) : SameLetter(s[i], w[i])

\* The quoting rule, as stated
MustQuote(s) ==
    \/ s = <<>>
    \/ s[1] \in Whitespace
    \/ s[Len(s)] \in Whitespace
    \/ \E i \in 1..Len(s) :
          s[i] \in {":", "{", "}", "[", "]", ",", "#", "&", "*", "!", "|", ">",
                    "%", "@", Backtick, "\n"}
    \/ \E w \in {Chars("null"), Chars("true"), Chars("false"), Chars("yes"),
                 Chars("no"), Chars("on"), Chars("off")} : SameWord(s, w)
    \/ s[1] \in {"-", "?", "@", "~", "=", "<", ">", "'", "\""}

\* t is s between single quotes, each single quote of s written twice
IsQuotedForm(t, s) ==
    LET QuotesBefore(i) == Cardinality({j \in 1..(i - 1) : s[j] = "'"})
        quotes == Cardinality({j \in 1..Len(s) : s[j] = "'"})
    IN  /\ Len(t) = Len(s) + quotes + 2
        /\ t[1] = "'"
        /\ t[Len(t)] = "'"
        /\ \A i \in 1..Len(s) :
              /\ t[1 + i + QuotesBefore(i)] = s[i]
              /\ s[i] = "'" => t[2 + i + QuotesBefore(i)] = "'"

\* C6: _yaml_escape_str single-quotes s, doubling its single quotes, exactly
\* when s is empty, begins or ends with whitespace, holds one of
\* : { } [ ] , # & * ! | > % @ backtick or a newline, is one of null, true,
\* false, yes, no, on, off in any case, or begins with one of
\* - ? @ ~ = < > ' "; otherwise it returns s as it is.
C6_QuotingRule ==
    Escaped =>
        IF MustQuote(input.s)
        THEN IsQuotedForm(result[1], input.s)
        ELSE result[1] = input.s

\* C6's case: a reserved word in mixed case is quoted.
C6_Witness ==
    /\ Escaped
    /\ input.s = Chars("oFF")
    /\ result[1] = Chars("'oFF'")

\* Every '' of a text replaced by ', from the left
RECURSIVE Undouble(_)
Undouble(t) ==
    IF Len(t) < 2 THEN t
    ELSE IF t[1] = "'" /\ t[2] = "'"
         THEN <<"'">> \o Undouble(SubSeq(t, 3, Len(t)))
         ELSE <<t[1]>> \o Undouble(Tail(t))

\* C7: for a text the emitter quotes, taking off the first and the last
\* single quote of the output and replacing every doubled single quote by
\* one gives the text back.
C7_RoundTrip ==
    (Escaped /\ result[1] # input.s) =>
        /\ Len(result[1]) >= 2
        /\ Head(result[1]) = "'"
        /\ result[1][Len(result[1])] = "'"
        /\ Undouble(SubSeq(result[1], 2, Len(result[1]) - 1)) = input.s

\* C7's case: a text of two single quotes is quoted into six.
C7_Witness ==
    /\ Escaped
    /\ input.s = <<"'", "'">>
    /\ result[1] = <<"'", "'", "'", "'", "'", "'">>

Rendered == input.fn = "yaml_info" /\ result # <<>>

\* A line without the spaces at its end
TrimRight(line) ==
    LET kept == {i \in 1..Len(line) : line[i] # " "} IN
    IF kept = {} THEN <<>>
    ELSE SubSeq(line, 1, CHOOSE i \in kept : \A j \in kept : j <= i)

RECURSIVE Flatten(_)
Flatten(blocks) ==
    IF blocks = <<>> THEN <<>> ELSE Head(blocks) \o Flatten(Tail(blocks))

\* The lines a non-empty list is to give at indent n: per element a line of
\* n spaces and "- ", holding a scalar element, and followed by the lines
\* of a nested element rendered at indent n + 2.
ListLines(items, n) ==
    Flatten([k \in 1..Len(items) |->
               IF _is_scalar(items[k])
               THEN <<Spaces(n) \o <<"-", " ">> \o yaml_info(items[k], 0)>>
               ELSE <<Spaces(n) \o <<"-", " ">>>>
                      \o SplitLines(yaml_info(items[k], n + 2))])

\* C8: yaml_info of a non-empty list at indent n starts every element on a
\* line of its own, n spaces then "- "; a scalar element is on that line; a
\* nested element is at indent n + 2 on the lines that follow, not on the
\* "- " line.  (Spaces at the end of a line are not compared.)
C8_ListLayout ==
    (Rendered /\ input.obj.t = "list" /\ input.obj.l # <<>>) =>
        LET got == SplitLines(result[1])
            want == ListLines(input.obj.l, input.indent)
        IN  /\ Len(got) = Len(want)
            /\ \A i \in 1..Len(want) : TrimRight(got[i]) = TrimRight(want[i])

\* Where the key line of the k-th entry is, each entry taking one line for
\* its key and, when its value is nested, the lines of that value
RECURSIVE KeyLineAt(_, _, _)
KeyLineAt(entries, n, k) ==
    IF k = 1 THEN 1
    ELSE KeyLineAt(entries, n, k - 1)
           + (IF _is_scalar(entries[k - 1][2]) THEN 1
              ELSE 1 + Len(SplitLines(yaml_info(entries[k - 1][2], n + 2))))

\* C9: yaml_info of a non-empty mapping at indent n gives every key a line
\* that begins with exactly n spaces, "key: value" for a scalar value and
\* "key:" otherwise, and every line of a nested value, an empty list or an
\* empty mapping included, begins with at least n + 2 spaces.
C9_MappingLayout ==
    (Rendered /\ input.obj.t = "dict" /\ input.obj.d # <<>>) =>
        LET entries == input.obj.d
            n == input.indent
            got == SplitLines(result[1])
            last == KeyLineAt(entries, n, Len(entries) + 1) - 1
        IN  /\ Len(got) = last
            /\ \A k \in 1..Len(entries) :
                  LET at == KeyLineAt(entries, n, k)
                      next == KeyLineAt(entries, n, k + 1)
                  IN  /\ at <= Len(got)
                      /\ got[at] =
                           Spaces(n) \o entries[k][1]
                             \o (IF _is_scalar(entries[k][2])
                                 THEN <<":", " ">> \o yaml_info(entries[k][2], 0)
                                 ELSE <<":">>)
                      /\ \A i \in (at + 1)..(next - 1) :
                            i <= Len(got) /\ LeadingSpaces(got[i]) >= n + 2

\* The titles main() prints, in order
SectionOrder ==
    <<"CallerIdentity", "Creation", "Location", "Versioning", "Encryption",
      "PublicAccessBlock", "Policy", "Logging", "Tagging", "Lifecycle", "ACL",
      "PolicyStatus", "OwnershipControls", "CORS", "Website", "Replication",
      "Accelerate", "RequestPayment", "ObjectLock">>

\* The last step made an API call, and the section of that call was printed
StepPrinted ==
    call.title # "" =>
        /\ titles # <<>>
        /\ titles[Len(titles)] = call.title
        /\ section.title = call.title

\* C2: whatever calls succeed or fail, the titles printed are CallerIdentity,
\* Creation, then every facet once in the order of the getters table: at
\* every point of a run what was printed is the beginning of that sequence,
\* each call has printed its section, and a finished run has printed all.
C2_SectionOrder ==
    /\ Len(titles) <= Len(SectionOrder)
    /\ titles = SubSeq(SectionOrder, 1, Len(titles))
    /\ StepPrinted
    /\ pc = "done" => titles = SectionOrder

\* C2's case: a finished run some of whose calls failed and some succeeded.
C2_Witness ==
    /\ pc = "done"
    /\ titles = SectionOrder
    /\ nfailed > 0
    /\ nfailed < Len(titles)

\* C4: when every API call succeeds or fails with a provider error, main
\* goes through the whole sweep and returns 0.
C4_ReturnsZero == <>(pc = "done" /\ rc = <<0>> /\ Len(titles) = Len(SectionOrder))

\* C4's case: every call of the run failed, and main returned 0.
C4_Witness ==
    /\ pc = "done"
    /\ rc = <<0>>
    /\ nfailed = Len(SectionOrder)

CreationPrinted == call.title = "Creation" /\ ~call.fn[1].raised

\* The buckets a ListBuckets response enumerates
Enumerated(resp) ==
    LET at == {i \in 1..Len(resp.d) : resp.d[i][1] = Chars("Buckets")} IN
    IF at = {} THEN <<>> ELSE resp.d[CHOOSE i \in at : TRUE][2].l

\* Field `key` of a bucket entry, as reported: a datetime in ISO-8601
Reported(entry, key) ==
    LET at == {i \in 1..Len(entry.d) : entry.d[i][1] = key} IN
    IF at = {} THEN PyNone
    ELSE LET v == entry.d[CHOOSE i \in at : TRUE][2] IN
         IF v.t = "datetime"
         THEN PyStr(v.date \o <<"T">> \o v.time \o v.offset)
         ELSE v

\* C5: when the enumeration succeeds, the Creation section holds the Name
\* and the CreationDate of the first enumerated bucket whose name is the
\* requested one, character for character; when no enumerated bucket has
\* that name, it is {status: "error", message: m}, m holding the requested
\* name, and never "not configured".
C5_Creation ==
    CreationPrinted =>
        LET buckets == Enumerated(call.fn[1].value)
            named == {i \in 1..Len(buckets) :
                        Reported(buckets[i], Chars("Name")) = PyStr(bucket)}
        IN  /\ section.title = "Creation"
            /\ IF named # {}
               THEN LET first == buckets[CHOOSE i \in named :
                                            \A j \in named : i <= j]
                    IN  section.content =
                          PyDict(<< <<Chars("Name"), PyStr(bucket)>>,
                                    <<Chars("CreationDate"),
                                      Reported(first, Chars("CreationDate"))>> >>)
               ELSE /\ Len(section.content.d) = 2
                    /\ section.content.d[1] =
                         <<Chars("status"), PyStr(Chars("error"))>>
                    /\ section.content.d[2][1] = Chars("message")
                    /\ Infix(bucket, section.content.d[2][2].s)

\* C5's case: the only bucket enumerated has a name the requested one is the
\* beginning of; the section is the error.
C5_Witness ==
    /\ CreationPrinted
    /\ bucket = Chars("my-bucket")
    /\ Len(Enumerated(call.fn[1].value)) = 1
    /\ Reported(Enumerated(call.fn[1].value)[1], Chars("Name"))
         = PyStr(Chars("my-bucket-2"))
    /\ section.content.d[1] = <<Chars("status"), PyStr(Chars("error"))>>

=============================================================================
